---- MODULE Spec2Model ----
(***************************************************************************)
(* Model of script.js, the front-end logic of the image overlay web app:   *)
(* the overlay transform record, the pointer gestures (drag, resize,       *)
(* crop), the undo/redo history and the asynchronous image decodes whose   *)
(* onload callbacks install rasters.                                       *)
(*                                                                         *)
(* JavaScript numbers are modelled as exact rationals <<n, d>> (d > 0, in  *)
(* lowest terms).  An image is modelled by the value of its src: the       *)
(* pixel rectangle of the keyed source file that its data URL encodes.     *)
(* A nullable JavaScript value is <<>> (null) or <<v>>.                    *)
(***************************************************************************)
EXTENDS Integers, Sequences, FiniteSets, TLC

(***************************************************************************)
(* Bounds of the model.                                                    *)
(***************************************************************************)
\* edits (button clicks, angle inputs and pointer-downs that reach saveState
\* or change the transform) explored in one run
MaxEdits == 2
\* pointer moves that change the state, explored in one run
MaxMoves == 1
\* undo and redo requests explored in one run
MaxUndos == 2
\* decodes that may be outstanding at once
MaxPending == 1
\* file picks (background, overlay), overlay removals and new sessions
\* explored in one run
MaxResets == 3

(***************************************************************************)
(* Rational arithmetic for JavaScript numbers.                             *)
(***************************************************************************)
RECURSIVE GCD(_, _)
GCD(a, b) == IF b = 0 THEN a ELSE GCD(b, a % b)

IAbs(n) == IF n < 0 THEN -n ELSE n

Norm(n, d) ==
  IF d = 1 THEN <<n, 1>>
  ELSE LET g == GCD(IAbs(n), IAbs(d))
           s == IF d < 0 THEN -1 ELSE 1
       IN <<(s * n) \div g, (s * d) \div g>>

R(n) == <<n, 1>>

RAdd(a, b) ==
  IF a[2] = b[2] THEN Norm(a[1] + b[1], a[2])
  ELSE LET g == GCD(a[2], b[2])
       IN Norm(a[1] * (b[2] \div g) + b[1] * (a[2] \div g), a[2] * (b[2] \div g))

RNeg(a) == <<-a[1], a[2]>>

RSub(a, b) == RAdd(a, RNeg(b))

RMul(a, b) ==
  IF a[2] = 1 /\ b[2] = 1 THEN <<a[1] * b[1], 1>>
  ELSE LET g1 == GCD(IAbs(a[1]), b[2])
           g2 == GCD(IAbs(b[1]), a[2])
       IN Norm((a[1] \div g1) * (b[1] \div g2), (a[2] \div g2) * (b[2] \div g1))

RDiv(a, b) == RMul(a, Norm(b[2], b[1]))

RLe(a, b) ==
  IF a[2] = b[2] THEN a[1] <= b[1]
  ELSE LET g == GCD(a[2], b[2])
       IN a[1] * (b[2] \div g) <= b[1] * (a[2] \div g)

RLt(a, b) == ~RLe(b, a)

RMin(a, b) == IF RLe(a, b) THEN a ELSE b

RMax(a, b) == IF RLe(a, b) THEN b ELSE a

RAbs(a) == <<IAbs(a[1]), a[2]>>

\* Math.floor and Math.ceil, as integers
RFloor(a) == a[1] \div a[2]

RCeil(a) == -((-a[1]) \div a[2])

Last(s) == s[Len(s)]

Front(s) == SubSeq(s, 1, Len(s) - 1)

Null == <<>>

Some(v) == <<v>>

(***************************************************************************)
(* Math.cos and Math.sin of an angle given in degrees.  The angles of the  *)
(* model are multiples of 5 degrees; the values are kept to two decimals   *)
(* and are exact at the quarter turns.                                     *)
(***************************************************************************)
CosTable == <<100, 100, 98, 97, 94, 91, 87, 82, 77, 71, 64, 57, 50, 42, 34, 26, 17, 9, 0>>

Cos100(deg) ==
  LET m == deg % 360
  IN IF m <= 90 THEN CosTable[(m \div 5) + 1]
     ELSE IF m <= 180 THEN -CosTable[((180 - m) \div 5) + 1]
     ELSE IF m <= 270 THEN -CosTable[((m - 180) \div 5) + 1]
     ELSE CosTable[((360 - m) \div 5) + 1]

Sin100(deg) == Cos100(deg - 90)

\* a number kept to 1/100, rounding half up
Round100(a) ==
  LET t == RMul(a, R(100))
  IN Norm((2 * t[1] + t[2]) \div (2 * t[2]), 100)

\* the vector (vx, vy) turned by deg degrees:
\* (vx cos - vy sin, vx sin + vy cos)
Rot(vx, vy, deg) ==
  LET c == Norm(Cos100(deg), 100)
      s == Norm(Sin100(deg), 100)
      rx == RSub(RMul(vx, c), RMul(vy, s))
      ry == RAdd(RMul(vx, s), RMul(vy, c))
  IN IF deg % 360 = 0 THEN <<vx, vy>>
     ELSE IF deg % 90 = 0 THEN <<rx, ry>>
     ELSE <<Round100(rx), Round100(ry)>>

(***************************************************************************)
(* Inputs: the image files the user can pick, the canvas points of the     *)
(* pointer events, the values typed into the angle input.                  *)
(***************************************************************************)
\* the colour <<r, g, b, a>> of the pixels of a file, unless said otherwise
OpaqueColour == <<200, 60, 30, 255>>

\* an image: the rectangle [u0, u0 + w) x [v0, v0 + h) of the file id, all of
\* one colour px
Raster(id, keyed, u0, v0, w, h) ==
  [id |-> id, keyed |-> keyed, u0 |-> u0, v0 |-> v0, w |-> w, h |-> h,
   px |-> OpaqueColour]

BgFiles == {Raster("bg", FALSE, 0, 0, 120, 70)}

OverlayFiles == {Raster("ov", FALSE, 0, 0, 100, 50)}

Points == {<<5, 5>>, <<80, 50>>, <<118, 68>>}

AngleInputs == {270}

(***************************************************************************)
(* The program's state.                                                    *)
(***************************************************************************)
VARIABLES
  bgImg,               \* background image, or null
  overlayImg,          \* keyed overlay image, or null
  overlayOriginalImg,  \* the overlay for overlay-only output, or null
  overlayState,        \* x, y, scale, angle, flipH, flipV
  dragging,
  dragData,            \* localX, localY: the anchor of the drag
  resizing,
  resizeHandle,        \* 0..3, or -1
  cropMode,
  cropping,
  cropStart,           \* <<x, y>> in unscaled local coordinates, or null
  cropEnd,
  undoStack,
  redoStack,
  undoDisabled,        \* undoBtn.disabled
  redoDisabled,        \* redoBtn.disabled
  pending,             \* images whose src is set and whose onload has not run
  nEdits,              \* edits so far (the n... count what a run has used of its bounds)
  nMoves,              \* pointer moves so far
  nUndos,              \* undo and redo requests so far
  nResets              \* file picks, removals and new sessions so far

vars == <<bgImg, overlayImg, overlayOriginalImg, overlayState, dragging, dragData,
          resizing, resizeHandle, cropMode, cropping, cropStart, cropEnd,
          undoStack, redoStack, undoDisabled, redoDisabled, pending,
          nEdits, nMoves, nUndos, nResets>>

\* the program's state as one record, the argument of the handlers below
St ==
  [bgImg |-> bgImg, overlayImg |-> overlayImg,
   overlayOriginalImg |-> overlayOriginalImg, overlayState |-> overlayState,
   dragging |-> dragging, dragData |-> dragData, resizing |-> resizing,
   resizeHandle |-> resizeHandle, cropMode |-> cropMode, cropping |-> cropping,
   cropStart |-> cropStart, cropEnd |-> cropEnd, undoStack |-> undoStack,
   redoStack |-> redoStack, undoDisabled |-> undoDisabled,
   redoDisabled |-> redoDisabled, pending |-> pending]

\* the handler's result becomes the next state
Set(s) ==
  /\ bgImg' = s.bgImg
  /\ overlayImg' = s.overlayImg
  /\ overlayOriginalImg' = s.overlayOriginalImg
  /\ overlayState' = s.overlayState
  /\ dragging' = s.dragging
  /\ dragData' = s.dragData
  /\ resizing' = s.resizing
  /\ resizeHandle' = s.resizeHandle
  /\ cropMode' = s.cropMode
  /\ cropping' = s.cropping
  /\ cropStart' = s.cropStart
  /\ cropEnd' = s.cropEnd
  /\ undoStack' = s.undoStack
  /\ redoStack' = s.redoStack
  /\ undoDisabled' = s.undoDisabled
  /\ redoDisabled' = s.redoDisabled
  /\ pending' = s.pending

InitOverlayState ==
  [x |-> R(0), y |-> R(0), scale |-> R(1), angle |-> 0, flipH |-> FALSE, flipV |-> FALSE]

Init ==
  /\ bgImg = Null
  /\ overlayImg = Null
  /\ overlayOriginalImg = Null
  /\ overlayState = InitOverlayState
  /\ dragging = FALSE
  /\ dragData = [localX |-> R(0), localY |-> R(0)]
  /\ resizing = FALSE
  /\ resizeHandle = -1
  /\ cropMode = FALSE
  /\ cropping = FALSE
  /\ cropStart = Null
  /\ cropEnd = Null
  /\ undoStack = <<>>
  /\ redoStack = <<>>
  /\ undoDisabled \in BOOLEAN
  /\ redoDisabled \in BOOLEAN
  /\ pending = <<>>
  /\ nEdits = 0
  /\ nMoves = 0
  /\ nUndos = 0
  /\ nResets = 0

\* a decode in flight: the image being decoded and what its onload closes over
Decode(kind, img, state, geom) ==
  [kind |-> kind, img |-> img, state |-> state, geom |-> geom]

RemoveAt(q, i) == SubSeq(q, 1, i - 1) \o SubSeq(q, i + 1, Len(q))

(***************************************************************************)
(* The undo/redo history.                                                  *)
(***************************************************************************)
updateUndoRedoButtons(s) ==
  [s EXCEPT !.undoDisabled = (s.undoStack = <<>>),
            !.redoDisabled = (s.redoStack = <<>>)]

\* the record saveState, undo and redo push for a loaded overlay
Snapshot(s) ==
  [overlayData |-> s.overlayImg, originalData |-> s.overlayOriginalImg,
   state |-> Some(s.overlayState)]

NullSnapshot == [overlayData |-> Null, originalData |-> Null, state |-> Null]

\* saveState without the clearing of the redo stack
saveStateKeepRedo(s) ==
  IF s.overlayImg = Null \/ s.overlayOriginalImg = Null THEN s
  ELSE updateUndoRedoButtons([s EXCEPT !.undoStack = Append(@, Snapshot(s))])

saveState(s) ==
  IF s.overlayImg = Null \/ s.overlayOriginalImg = Null THEN s
  ELSE updateUndoRedoButtons(
         [s EXCEPT !.undoStack = Append(@, Snapshot(s)), !.redoStack = <<>>])

\* undo without the length check: the current state is pushed on the redo
\* stack before the pop of the empty undo stack fails
undoNoLengthCheck(s) ==
  LET current == IF s.overlayImg # Null /\ s.overlayOriginalImg # Null
                 THEN Snapshot(s) ELSE NullSnapshot
      s1 == [s EXCEPT !.redoStack = Append(@, current)]
  IN IF s.undoStack = <<>> THEN s1
     ELSE LET prev == Last(s.undoStack)
              s2 == [s1 EXCEPT !.undoStack = Front(@)]
          IN IF prev.overlayData # Null
             THEN [s2 EXCEPT !.pending =
                     Append(@, Decode("restore", prev.overlayData[1], prev.state, <<>>))]
             ELSE updateUndoRedoButtons(
                    [s2 EXCEPT !.overlayImg = Null, !.overlayOriginalImg = Null])

undo(s) ==
  IF s.undoStack = <<>> THEN s
  ELSE
    LET current == IF s.overlayImg # Null /\ s.overlayOriginalImg # Null
                   THEN Snapshot(s) ELSE NullSnapshot
        prev == Last(s.undoStack)
        s1 == [s EXCEPT !.redoStack = Append(@, current),
                        !.undoStack = Front(@)]
    IN IF prev.overlayData # Null
       THEN [s1 EXCEPT !.pending =
               Append(@, Decode("restore", prev.overlayData[1], prev.state, <<>>))]
       ELSE updateUndoRedoButtons(
              [s1 EXCEPT !.overlayImg = Null, !.overlayOriginalImg = Null])

\* redo without the push of the current state onto the undo stack
redoNoPush(s) ==
  IF s.redoStack = <<>> THEN s
  ELSE
    LET next == Last(s.redoStack)
        s1 == [s EXCEPT !.redoStack = Front(@)]
    IN IF next.overlayData # Null
       THEN [s1 EXCEPT !.pending =
               Append(@, Decode("restore", next.overlayData[1], next.state, <<>>))]
       ELSE updateUndoRedoButtons(
              [s1 EXCEPT !.overlayImg = Null, !.overlayOriginalImg = Null])

redo(s) ==
  IF s.redoStack = <<>> THEN s
  ELSE
    LET current == IF s.overlayImg # Null /\ s.overlayOriginalImg # Null
                   THEN Snapshot(s) ELSE NullSnapshot
        next == Last(s.redoStack)
        s1 == [s EXCEPT !.undoStack = Append(@, current),
                        !.redoStack = Front(@)]
    IN IF next.overlayData # Null
       THEN [s1 EXCEPT !.pending =
               Append(@, Decode("restore", next.overlayData[1], next.state, <<>>))]
       ELSE updateUndoRedoButtons(
              [s1 EXCEPT !.overlayImg = Null, !.overlayOriginalImg = Null])

\* the onload of undo and redo installing the raster and leaving the
\* transform to a later step
restoreOnloadRasterOnly(s, p) ==
  updateUndoRedoButtons(
    [s EXCEPT !.overlayImg = Some(p.img), !.overlayOriginalImg = Some(p.img)])

\* the onload of a restore without the refresh of the buttons
restoreOnloadNoButtons(s, p) ==
  [s EXCEPT !.overlayImg = Some(p.img),
            !.overlayOriginalImg = Some(p.img),
            !.overlayState = p.state[1]]

\* the onload of a restore that leaves the original overlay as it is
restoreOnloadKeepOriginal(s, p) ==
  updateUndoRedoButtons(
    [s EXCEPT !.overlayImg = Some(p.img),
              !.overlayState = p.state[1]])

\* img.onload of undo and of redo; p is the decode that completed
restoreOnload(s, p) ==
  updateUndoRedoButtons(
    [s EXCEPT !.overlayImg = Some(p.img),
              !.overlayOriginalImg = Some(p.img),
              !.overlayState = p.state[1]])

(***************************************************************************)
(* Loading and removing images.                                            *)
(***************************************************************************)
\* Math.min(maxW / ovW, maxH / ovH, 1)
FitScale(bg, ov) ==
  RMin(RMin(Norm(bg.w, ov.w), Norm(bg.h, ov.h)), R(1))

bgInputChange(s, file) ==
  [s EXCEPT !.pending = Append(@, Decode("bg", file, Null, <<>>))]

\* img.onload of the background
bgOnload(s, p) ==
  LET s1 == [s EXCEPT !.bgImg = Some(p.img)]
  IN IF s1.overlayImg = Null THEN s1
     ELSE
       LET ov == s1.overlayImg[1]
           maxScale == FitScale(p.img, ov)
           st == s1.overlayState
       IN [s1 EXCEPT !.overlayState =
             [st EXCEPT !.scale = maxScale,
                        !.x = RMin(st.x, RSub(R(p.img.w), RMul(R(ov.w), maxScale))),
                        !.y = RMin(st.y, RSub(R(p.img.h), RMul(R(ov.h), maxScale)))]]

overlayInputChange(s, file) ==
  IF s.bgImg = Null THEN s
  ELSE [s EXCEPT !.pending = Append(@, Decode("raw", file, Null, <<>>))]

keyR == 128

keyG == 128

keyB == 128

tol == 22

ramp == IF tol < 254 THEN 2 ELSE 1

\* Math.round of n / d for n >= 0, d > 0: halves round up
MathRound(n, d) == (2 * n + d) \div (2 * d)

\* the table with a hard edge at the tolerance, no ramp
lutHardEdge(d) == IF d <= tol THEN 0 ELSE 255

\* lut[d], an entry of a Uint8ClampedArray
lut(d) ==
  LET a == IF d <= tol THEN 0
           ELSE IF d >= tol + ramp THEN 255
           ELSE MathRound(255 * (d - tol), ramp)
  IN IF a > 255 THEN 255 ELSE a

\* Math.max(dr, Math.max(dg, db)) of a pixel
maxDiff(px) ==
  LET dr == IAbs(px[1] - keyR)
      dg == IAbs(px[2] - keyG)
      db == IAbs(px[3] - keyB)
      m == IF dg >= db THEN dg ELSE db
  IN IF dr >= m THEN dr ELSE m

\* the image data after the loop of applyGreyKey: data[i + 3] is written,
\* data[i], data[i + 1], data[i + 2] are not
applyGreyKey(img) ==
  [img EXCEPT !.keyed = TRUE,
              !.px = <<@[1], @[2], @[3], lut(maxDiff(@))>>]

\* rawImg.onload: applyGreyKey draws and keys the image and sets rgbaImg.src
rawOnload(s, p) ==
  [s EXCEPT !.pending =
     Append(@, Decode("rgba", applyGreyKey(p.img), Null, <<>>))]

\* the callback of the overlay load without the reset of the stacks
rgbaOnloadKeepHistory(s, p) ==
  LET s1 == [s EXCEPT !.overlayImg = Some(p.img),
                      !.overlayOriginalImg = Some(p.img)]
  IN IF s1.bgImg = Null THEN s1
     ELSE
       LET bg == s1.bgImg[1]
           maxScale == FitScale(bg, p.img)
       IN saveState(
            [s1 EXCEPT
               !.overlayState =
                 [x |-> RMin(R(20), RSub(R(bg.w), RMul(R(p.img.w), maxScale))),
                  y |-> RMin(R(20), RSub(R(bg.h), RMul(R(p.img.h), maxScale))),
                  scale |-> maxScale, angle |-> 0,
                  flipH |-> FALSE, flipV |-> FALSE],
               !.cropMode = FALSE, !.cropping = FALSE,
               !.cropStart = Null, !.cropEnd = Null])

\* rgbaImg.onload: the callback given to applyGreyKey.  With no background
\* bgImg.width throws after the two images are assigned.
rgbaOnload(s, p) ==
  LET s1 == [s EXCEPT !.overlayImg = Some(p.img),
                      !.overlayOriginalImg = Some(p.img)]
  IN IF s1.bgImg = Null THEN s1
     ELSE
       LET bg == s1.bgImg[1]
           maxScale == FitScale(bg, p.img)
       IN saveState(
            [s1 EXCEPT
               !.overlayState =
                 [x |-> RMin(R(20), RSub(R(bg.w), RMul(R(p.img.w), maxScale))),
                  y |-> RMin(R(20), RSub(R(bg.h), RMul(R(p.img.h), maxScale))),
                  scale |-> maxScale, angle |-> 0,
                  flipH |-> FALSE, flipV |-> FALSE],
               !.cropMode = FALSE, !.cropping = FALSE,
               !.cropStart = Null, !.cropEnd = Null,
               !.undoStack = <<>>, !.redoStack = <<>>])

\* the removal of the overlay without the clearing of the stacks
removeOverlayBtnClickKeepStacks(s) ==
  updateUndoRedoButtons(
    [s EXCEPT !.overlayImg = Null, !.overlayOriginalImg = Null,
              !.cropMode = FALSE, !.cropping = FALSE,
              !.cropStart = Null, !.cropEnd = Null])

removeOverlayBtnClick(s) ==
  updateUndoRedoButtons(
    [s EXCEPT !.overlayImg = Null, !.overlayOriginalImg = Null,
              !.cropMode = FALSE, !.cropping = FALSE,
              !.cropStart = Null, !.cropEnd = Null,
              !.undoStack = <<>>, !.redoStack = <<>>])

newBtnClick(s) ==
  updateUndoRedoButtons(
    [s EXCEPT !.bgImg = Null, !.overlayImg = Null, !.overlayOriginalImg = Null,
              !.overlayState = InitOverlayState,
              !.dragData = [localX |-> R(0), localY |-> R(0)],
              !.cropMode = FALSE, !.cropping = FALSE,
              !.cropStart = Null, !.cropEnd = Null,
              !.undoStack = <<>>, !.redoStack = <<>>])

(***************************************************************************)
(* The buttons and the angle input.                                        *)
(***************************************************************************)
cropBtnClick(s) ==
  IF s.overlayImg = Null THEN s
  ELSE IF ~s.cropMode
  THEN [saveState(s) EXCEPT !.cropMode = TRUE, !.cropping = FALSE,
                            !.cropStart = Null, !.cropEnd = Null]
  ELSE [s EXCEPT !.cropMode = FALSE, !.cropping = FALSE,
                 !.cropStart = Null, !.cropEnd = Null]

smallerBtnClick(s) ==
  IF s.overlayImg = Null THEN s
  ELSE
    LET s1 == saveState(s)
        st == s1.overlayState
        scale == RMul(st.scale, Norm(10, 11))
        w == RMul(R(s1.overlayImg[1].w), RAbs(scale))
        h == RMul(R(s1.overlayImg[1].h), RAbs(scale))
    IN IF s1.bgImg = Null
       THEN [s1 EXCEPT !.overlayState = [st EXCEPT !.scale = scale]]
       ELSE [s1 EXCEPT !.overlayState =
               [st EXCEPT !.scale = scale,
                          !.x = RMin(st.x, RSub(R(s1.bgImg[1].w), w)),
                          !.y = RMin(st.y, RSub(R(s1.bgImg[1].h), h))]]

biggerBtnClick(s) ==
  IF s.overlayImg = Null THEN s
  ELSE
    LET s1 == saveState(s)
        nextScale == RMul(s1.overlayState.scale, Norm(11, 10))
        w == RMul(R(s1.overlayImg[1].w), RAbs(nextScale))
        h == RMul(R(s1.overlayImg[1].h), RAbs(nextScale))
    IN IF s1.bgImg # Null
          /\ (RLt(R(s1.bgImg[1].w), w) \/ RLt(R(s1.bgImg[1].h), h))
       THEN s1
       ELSE [s1 EXCEPT !.overlayState.scale = nextScale]

\* val is parseFloat(e.target.value) || 0
angleInputInput(s, val) ==
  LET s1 == saveState(s)
      a1 == IF val > 180 THEN val - 360 ELSE val
      a2 == IF a1 < -180 THEN a1 + 360 ELSE a1
  IN [s1 EXCEPT !.overlayState.angle = a2]

\* normalizeAngle without its second loop
RECURSIVE normalizeAngleUpperOnly(_)
normalizeAngleUpperOnly(angle) ==
  IF angle > 180 THEN normalizeAngleUpperOnly(angle - 360)
  ELSE angle

RECURSIVE normalizeAngle(_)
normalizeAngle(angle) ==
  IF angle > 180 THEN normalizeAngle(angle - 360)
  ELSE IF angle < -180 THEN normalizeAngle(angle + 360)
  ELSE angle

rotM5BtnClick(s) ==
  LET s1 == saveState(s)
  IN [s1 EXCEPT !.overlayState.angle = normalizeAngle(@ - 5)]

\* rotate +5 with the snapshot taken after the change
rotP5BtnClickSaveAfter(s) ==
  saveState([s EXCEPT !.overlayState.angle = normalizeAngle(@ + 5)])

rotP5BtnClick(s) ==
  LET s1 == saveState(s)
  IN [s1 EXCEPT !.overlayState.angle = normalizeAngle(@ + 5)]

rotResetBtnClick(s) ==
  LET s1 == saveState(s)
  IN [s1 EXCEPT !.overlayState.angle = 0]

flipHBtnClick(s) ==
  LET s1 == saveState(s)
  IN [s1 EXCEPT !.overlayState.flipH = ~@]

flipVBtnClick(s) ==
  LET s1 == saveState(s)
  IN [s1 EXCEPT !.overlayState.flipV = ~@]

(***************************************************************************)
(* Pointer gestures on the canvas.                                         *)
(***************************************************************************)
\* handleSize of the pointerdown hit test
handleSize == 10

\* overlayImg.width * Math.abs(overlayState.scale), and the height
ScaledW(s) == RMul(R(s.overlayImg[1].w), RAbs(s.overlayState.scale))

ScaledH(s) == RMul(R(s.overlayImg[1].h), RAbs(s.overlayState.scale))

Half(a) == RMul(a, <<1, 2>>)

CentreX(s) == RAdd(s.overlayState.x, Half(ScaledW(s)))

CentreY(s) == RAdd(s.overlayState.y, Half(ScaledH(s)))

\* the canvas point (px, py) in the overlay's local space (scaled coordinates)
ToLocal(s, px, py) ==
  Rot(RSub(R(px), CentreX(s)), RSub(R(py), CentreY(s)), -s.overlayState.angle)

\* the corners of the box in local space, in the order of the handle indices
Corners(w, h) ==
  <<<<RNeg(Half(w)), RNeg(Half(h))>>, <<Half(w), RNeg(Half(h))>>,
    <<Half(w), Half(h)>>, <<RNeg(Half(w)), Half(h)>>>>

\* the indices of the handles the local point hits
HitHandles(local, w, h) ==
  LET corners == Corners(w, h)
  IN {i \in 0..3 :
        /\ RLe(RAbs(RSub(local[1], corners[i + 1][1])), R(handleSize))
        /\ RLe(RAbs(RSub(local[2], corners[i + 1][2])), R(handleSize))}

MinOf(S) == CHOOSE i \in S : \A j \in S : i <= j

\* the clamp without its lower bound
ClampMinOnly(v, hi) == RMin(v, hi)

\* Math.max(0, Math.min(v, hi))
Clamp0(v, hi) == RMax(R(0), RMin(v, hi))

pointerdown(s, px, py) ==
  IF s.overlayImg = Null \/ s.bgImg = Null THEN s
  ELSE
    LET s1 == saveState(s)
        w == ScaledW(s1)
        h == ScaledH(s1)
        local == ToLocal(s1, px, py)
        unscaledX == RDiv(local[1], s1.overlayState.scale)
        unscaledY == RDiv(local[2], s1.overlayState.scale)
        hits == HitHandles(local, w, h)
    IN IF s1.cropMode
       THEN IF /\ RLe(RAbs(unscaledX), Half(R(s1.overlayOriginalImg[1].w)))
               /\ RLe(RAbs(unscaledY), Half(R(s1.overlayOriginalImg[1].h)))
            THEN [s1 EXCEPT !.cropping = TRUE,
                            !.cropStart = <<unscaledX, unscaledY>>,
                            !.cropEnd = <<unscaledX, unscaledY>>]
            ELSE [s1 EXCEPT !.cropMode = FALSE, !.cropping = FALSE,
                            !.cropStart = Null, !.cropEnd = Null]
       ELSE IF hits # {}
       THEN [s1 EXCEPT !.resizing = TRUE, !.resizeHandle = MinOf(hits),
                       !.dragging = FALSE]
       ELSE IF RLe(RAbs(local[1]), Half(w)) /\ RLe(RAbs(local[2]), Half(h))
       THEN [s1 EXCEPT !.dragging = TRUE,
                       !.dragData = [localX |-> local[1], localY |-> local[2]]]
       ELSE s1

\* minScale of the resize
minScale == Norm(1, 20)

pointermove(s, px, py) ==
  IF s.overlayImg = Null \/ s.bgImg = Null THEN s
  ELSE
    LET st == s.overlayState
        ov == s.overlayImg[1]
        bg == s.bgImg[1]
        w == ScaledW(s)
        h == ScaledH(s)
        cx == CentreX(s)
        cy == CentreY(s)
        local == ToLocal(s, px, py)
    IN IF s.cropping
       THEN [s EXCEPT !.cropEnd =
               <<RDiv(local[1], st.scale), RDiv(local[2], st.scale)>>]
       ELSE IF s.resizing
       THEN
         LET scaleX == RDiv(RMul(R(2), RAbs(local[1])), R(ov.w))
             scaleY == RDiv(RMul(R(2), RAbs(local[2])), R(ov.h))
             maxScale == RMin(Norm(bg.w, ov.w), Norm(bg.h, ov.h))
             capped == RMin(RMin(scaleX, scaleY), maxScale)
             newScale == IF RLt(capped, minScale) THEN minScale ELSE capped
             newW == RMul(R(ov.w), newScale)
             newH == RMul(R(ov.h), newScale)
         IN [s EXCEPT !.overlayState =
               [st EXCEPT !.scale = newScale,
                          !.x = Clamp0(RSub(cx, Half(newW)), RSub(R(bg.w), newW)),
                          !.y = Clamp0(RSub(cy, Half(newH)), RSub(R(bg.h), newH))]]
       ELSE IF s.dragging
       THEN
         LET g == Rot(s.dragData.localX, s.dragData.localY, st.angle)
             newX == RSub(RSub(R(px), g[1]), Half(w))
             newY == RSub(RSub(R(py), g[2]), Half(h))
         IN [s EXCEPT !.overlayState =
               [st EXCEPT !.x = Clamp0(newX, RSub(R(bg.w), w)),
                          !.y = Clamp0(newY, RSub(R(bg.h), h))]]
       ELSE s

\* Cropping is defined in the overlay's local coordinate system (origin at
\* the centre, units in original pixels).
performCrop(s) ==
  IF s.cropStart = Null \/ s.cropEnd = Null \/ s.overlayOriginalImg = Null THEN s
  ELSE
    LET orig == s.overlayOriginalImg[1]
        oldWidth == orig.w
        oldHeight == orig.h
        x1 == RMin(s.cropStart[1], s.cropEnd[1])
        x2 == RMax(s.cropStart[1], s.cropEnd[1])
        y1 == RMin(s.cropStart[2], s.cropEnd[2])
        y2 == RMax(s.cropStart[2], s.cropEnd[2])
        x1f == IF s.overlayState.flipH THEN RNeg(x2) ELSE x1
        x2f == IF s.overlayState.flipH THEN RNeg(x1) ELSE x2
        y1f == IF s.overlayState.flipV THEN RNeg(y2) ELSE y1
        y2f == IF s.overlayState.flipV THEN RNeg(y1) ELSE y2
        fu1 == RFloor(RAdd(x1f, Half(R(oldWidth))))
        cu2 == RCeil(RAdd(x2f, Half(R(oldWidth))))
        fv1 == RFloor(RAdd(y1f, Half(R(oldHeight))))
        cv2 == RCeil(RAdd(y2f, Half(R(oldHeight))))
        u1 == IF fu1 < 0 THEN 0 ELSE fu1
        u2 == IF cu2 > oldWidth THEN oldWidth ELSE cu2
        v1 == IF fv1 < 0 THEN 0 ELSE fv1
        v2 == IF cv2 > oldHeight THEN oldHeight ELSE cv2
        wCrop == u2 - u1
        hCrop == v2 - v1
        cropCenterX == Half(RAdd(x1f, x2f))
        cropCenterY == Half(RAdd(y1f, y2f))
        newImg == [orig EXCEPT !.u0 = @ + u1, !.v0 = @ + v1,
                               !.w = wCrop, !.h = hCrop]
    IN IF wCrop <= 0 \/ hCrop <= 0
       THEN [s EXCEPT !.cropStart = Null, !.cropEnd = Null]
       ELSE [s EXCEPT !.pending =
               Append(@, Decode("crop", newImg, Null,
                                <<R(oldWidth), R(oldHeight), cropCenterX, cropCenterY>>))]

\* the onload of the crop with the new centre taken for the new origin
cropOnloadCentreAsOrigin(s, p) ==
  LET s1 == [s EXCEPT !.overlayImg = Some(p.img),
                      !.overlayOriginalImg = Some(p.img)]
      st == s1.overlayState
      scale == st.scale
      shift == Rot(RMul(p.geom[3], scale), RMul(p.geom[4], scale), st.angle)
      oldCentreX == RAdd(st.x, Half(RMul(p.geom[1], scale)))
      oldCentreY == RAdd(st.y, Half(RMul(p.geom[2], scale)))
      newWidthScaled == RMul(R(p.img.w), scale)
      newHeightScaled == RMul(R(p.img.h), scale)
      newX == RAdd(oldCentreX, shift[1])
      newY == RAdd(oldCentreY, shift[2])
  IN IF s1.bgImg = Null THEN s1
     ELSE [s1 EXCEPT
             !.overlayState =
               [st EXCEPT
                  !.x = Clamp0(newX, RSub(R(s1.bgImg[1].w), newWidthScaled)),
                  !.y = Clamp0(newY, RSub(R(s1.bgImg[1].h), newHeightScaled))],
             !.cropStart = Null, !.cropEnd = Null]

\* newImg.onload of performCrop.  With no background bgImg.width throws
\* after the two images are assigned.
cropOnload(s, p) ==
  LET s1 == [s EXCEPT !.overlayImg = Some(p.img),
                      !.overlayOriginalImg = Some(p.img)]
      st == s1.overlayState
      scale == st.scale
      shift == Rot(RMul(p.geom[3], scale), RMul(p.geom[4], scale), st.angle)
      oldCentreX == RAdd(st.x, Half(RMul(p.geom[1], scale)))
      oldCentreY == RAdd(st.y, Half(RMul(p.geom[2], scale)))
      newWidthScaled == RMul(R(p.img.w), scale)
      newHeightScaled == RMul(R(p.img.h), scale)
      newX == RSub(RAdd(oldCentreX, shift[1]), Half(newWidthScaled))
      newY == RSub(RAdd(oldCentreY, shift[2]), Half(newHeightScaled))
  IN IF s1.bgImg = Null THEN s1
     ELSE [s1 EXCEPT
             !.overlayState =
               [st EXCEPT
                  !.x = Clamp0(newX, RSub(R(s1.bgImg[1].w), newWidthScaled)),
                  !.y = Clamp0(newY, RSub(R(s1.bgImg[1].h), newHeightScaled))],
             !.cropStart = Null, !.cropEnd = Null]

\* pointerup without the test of cropping: every pointer-up commits
pointerupAlwaysCrops(s) ==
  performCrop([s EXCEPT !.cropping = FALSE, !.cropMode = FALSE])

pointerup(s) ==
  IF s.cropping
  THEN performCrop([s EXCEPT !.cropping = FALSE, !.cropMode = FALSE])
  ELSE updateUndoRedoButtons(
         [s EXCEPT !.dragging = FALSE,
                   !.resizing = IF s.resizing THEN FALSE ELSE @,
                   !.resizeHandle = IF s.resizing THEN -1 ELSE @])

(***************************************************************************)
(* The events.  Each action is one handler run to completion.              *)
(***************************************************************************)
CanDecode(s) == Len(s.pending) < MaxPending

\* a handler the bounds do not count
Do(s) == Set(s) /\ UNCHANGED <<nEdits, nMoves, nUndos, nResets>>

\* an edit, a pointer move, an undo or redo: counted when it changes the state
Edit(s) ==
  /\ nEdits < MaxEdits
  /\ s # St
  /\ Set(s)
  /\ nEdits' = nEdits + 1
  /\ UNCHANGED <<nMoves, nUndos, nResets>>

Move(s) ==
  /\ nMoves < MaxMoves
  /\ s # St
  /\ Set(s)
  /\ nMoves' = nMoves + 1
  /\ UNCHANGED <<nEdits, nUndos, nResets>>

History(s) ==
  /\ nUndos < MaxUndos
  /\ s # St
  /\ Set(s)
  /\ nUndos' = nUndos + 1
  /\ UNCHANGED <<nEdits, nMoves, nResets>>

Reset(s) ==
  /\ nResets < MaxResets
  /\ Set(s)
  /\ nResets' = nResets + 1
  /\ UNCHANGED <<nEdits, nMoves, nUndos>>

\* the state with the i-th decode taken out of flight
Completed(i) == [St EXCEPT !.pending = RemoveAt(@, i)]

BgInputChange ==
  \E file \in BgFiles : CanDecode(St) /\ Reset(bgInputChange(St, file))

BgOnload ==
  \E i \in 1..Len(pending) :
    pending[i].kind = "bg" /\ Do(bgOnload(Completed(i), pending[i]))

OverlayInputChange ==
  \E file \in OverlayFiles :
    CanDecode(St) /\ bgImg # Null /\ Reset(overlayInputChange(St, file))

RawOnload ==
  \E i \in 1..Len(pending) :
    pending[i].kind = "raw" /\ Do(rawOnload(Completed(i), pending[i]))

RgbaOnload ==
  \E i \in 1..Len(pending) :
    pending[i].kind = "rgba" /\ Do(rgbaOnload(Completed(i), pending[i]))

RemoveOverlayBtnClick == Reset(removeOverlayBtnClick(St))

NewBtnClick == Reset(newBtnClick(St))

CropBtnClick ==
  IF cropMode THEN Do(cropBtnClick(St)) ELSE Edit(cropBtnClick(St))

SmallerBtnClick == Edit(smallerBtnClick(St))

BiggerBtnClick == Edit(biggerBtnClick(St))

AngleInputInput ==
  \E val \in AngleInputs : Edit(angleInputInput(St, val))

RotM5BtnClick == Edit(rotM5BtnClick(St))

RotP5BtnClick == Edit(rotP5BtnClick(St))

RotResetBtnClick == Edit(rotResetBtnClick(St))

FlipHBtnClick == Edit(flipHBtnClick(St))

FlipVBtnClick == Edit(flipVBtnClick(St))

PointerDown ==
  \E pt \in Points : Edit(pointerdown(St, pt[1], pt[2]))

PointerMove ==
  \E pt \in Points : Move(pointermove(St, pt[1], pt[2]))

PointerUp == (cropping => CanDecode(St)) /\ Do(pointerup(St))

Undo == CanDecode(St) /\ History(undo(St))

Redo == CanDecode(St) /\ History(redo(St))

RestoreOnload ==
  \E i \in 1..Len(pending) :
    pending[i].kind = "restore" /\ Do(restoreOnload(Completed(i), pending[i]))

CropOnload ==
  \E i \in 1..Len(pending) :
    pending[i].kind = "crop" /\ Do(cropOnload(Completed(i), pending[i]))

Next ==
  \/ BgInputChange
  \/ BgOnload
  \/ OverlayInputChange
  \/ RawOnload
  \/ RgbaOnload
  \/ RemoveOverlayBtnClick
  \/ NewBtnClick
  \/ CropBtnClick
  \/ SmallerBtnClick
  \/ BiggerBtnClick
  \/ AngleInputInput
  \/ RotM5BtnClick
  \/ RotP5BtnClick
  \/ RotResetBtnClick
  \/ FlipHBtnClick
  \/ FlipVBtnClick
  \/ PointerDown
  \/ PointerMove
  \/ PointerUp
  \/ Undo
  \/ Redo
  \/ RestoreOnload
  \/ CropOnload

Spec == Init /\ [][Next]_vars

(***************************************************************************)
(* The same handlers on images of several sizes: backgrounds smaller than  *)
(* the overlay, an overlay more than twenty times the background, and      *)
(* pointer positions on the handles and inside the boxes these give.       *)
(***************************************************************************)
SizeBgFiles ==
  {Raster("bg", FALSE, 0, 0, 120, 70), Raster("bgS", FALSE, 0, 0, 50, 50),
   Raster("bgL", FALSE, 0, 0, 200, 150)}

SizeOverlayFiles ==
  {Raster("ov", FALSE, 0, 0, 100, 50), Raster("ovL", FALSE, 0, 0, 2000, 1000)}

SizePoints == {<<25, 25>>, <<45, 40>>, <<80, 50>>, <<115, 65>>}

BgInputChangeSizes ==
  \E file \in SizeBgFiles : CanDecode(St) /\ Reset(bgInputChange(St, file))

OverlayInputChangeSizes ==
  \E file \in SizeOverlayFiles :
    CanDecode(St) /\ bgImg # Null /\ Reset(overlayInputChange(St, file))

PointerDownSizes ==
  \E pt \in SizePoints : Edit(pointerdown(St, pt[1], pt[2]))

PointerMoveSizes ==
  \E pt \in SizePoints : Move(pointermove(St, pt[1], pt[2]))

NextSizes ==
  \/ BgInputChangeSizes
  \/ BgOnload
  \/ OverlayInputChangeSizes
  \/ RawOnload
  \/ RgbaOnload
  \/ PointerDownSizes
  \/ PointerMoveSizes
  \/ PointerUp

SpecSizes == Init /\ [][NextSizes]_vars

(***************************************************************************)
(* The angle handlers alone, on every integer typed into the angle input   *)
(* up to two turns either way: the angles normalizeAngle is applied to.    *)
(***************************************************************************)
MaxAngle == 725

AngleDomain == (0 - MaxAngle)..MaxAngle

AngleInputAny ==
  \E val \in AngleDomain : Edit(angleInputInput(St, val))

NextAngles ==
  \/ AngleInputAny
  \/ RotM5BtnClick
  \/ RotP5BtnClick

SpecAngles == Init /\ [][NextAngles]_vars

(***************************************************************************)
(* The overlay load alone, on files of every colour of a grid around the   *)
(* key colour: the pixels applyGreyKey is applied to.                      *)
(***************************************************************************)
Channel == {0, 104, 105, 106, 107, 128, 149, 150, 151, 152, 255}

KeyFiles ==
  {[Raster("ov", FALSE, 0, 0, 100, 50) EXCEPT !.px = <<r, g, b, a>>] :
     r \in Channel, g \in {105, 128, 151}, b \in {128, 150}, a \in {255}}

OverlayInputChangeKey ==
  \E file \in KeyFiles :
    CanDecode(St) /\ bgImg # Null /\ Reset(overlayInputChange(St, file))

NextKey ==
  \/ BgInputChange
  \/ BgOnload
  \/ OverlayInputChangeKey
  \/ RawOnload
  \/ RgbaOnload

SpecKey == Init /\ [][NextKey]_vars

(***************************************************************************)
(* The history under fair decoding: loads, button edits, undo and redo,    *)
(* and the decode of a restore, which completes once it has been started.  *)
(***************************************************************************)
NextHistory ==
  \/ BgInputChange
  \/ BgOnload
  \/ OverlayInputChange
  \/ RawOnload
  \/ RgbaOnload
  \/ RotP5BtnClick
  \/ FlipHBtnClick
  \/ SmallerBtnClick
  \/ Undo
  \/ Redo
  \/ RestoreOnload

SpecHistory == Init /\ [][NextHistory]_vars /\ WF_vars(RestoreOnload)

(***************************************************************************)
(* Properties.  The handlers are functions of the state, so a property of  *)
(* "the state after this handler" is stated at every reachable state by    *)
(* applying the handler to it.                                             *)
(***************************************************************************)
Loaded(s) == s.overlayImg # Null /\ s.bgImg # Null

\* the onload of the decode p, run on the state s0 it has left
Onload(s0, p) ==
  CASE p.kind = "restore" -> restoreOnload(s0, p)
    [] p.kind = "crop" -> cropOnload(s0, p)
    [] p.kind = "bg" -> bgOnload(s0, p)
    [] p.kind = "raw" -> rawOnload(s0, p)
    [] p.kind = "rgba" -> rgbaOnload(s0, p)

\* s once the decode started last has completed
Settle(s) ==
  IF s.pending = <<>> THEN s
  ELSE Onload([s EXCEPT !.pending = Front(@)], Last(s.pending))

\* a whole gesture from s: pointer down at p, a move to q, pointer up, and
\* the decode of the crop when the gesture was a crop selection
GestureFrom(d, q) == Settle(pointerup(pointermove(d, q[1], q[2])))

Gesture(s, p, q) == GestureFrom(pointerdown(s, p[1], p[2]), q)

\* s with crop mode entered, by the crop button if need be
InCropMode(s) == IF s.cropMode THEN s ELSE cropBtnClick(s)

\* one undo from a, its decode completed, gives the raster and the transform
\* of the current state
UndoRestores(a) ==
  LET u == Settle(undo(a))
  IN u.overlayImg = overlayImg /\ u.overlayState = overlayState

\* C1: with an overlay and a background loaded and no decode pending, each
\* mutating action (a button, the angle input, a drag or resize gesture, a
\* completed crop) followed by one undo whose decode completes leaves the
\* live raster and the transform as they were before the action.
C1_UndoRestoresPreAction ==
  (Loaded(St) /\ pending = <<>>) =>
    /\ UndoRestores(smallerBtnClick(St))
    /\ UndoRestores(biggerBtnClick(St))
    /\ UndoRestores(rotM5BtnClick(St))
    /\ UndoRestores(rotP5BtnClick(St))
    /\ UndoRestores(rotResetBtnClick(St))
    /\ UndoRestores(flipHBtnClick(St))
    /\ UndoRestores(flipVBtnClick(St))
    /\ \A val \in AngleInputs : UndoRestores(angleInputInput(St, val))
    /\ \A p \in Points :
         LET d == pointerdown(St, p[1], p[2])
             c == pointerdown(InCropMode(St), p[1], p[2])
         IN \A q \in Points :
              /\ UndoRestores(GestureFrom(d, q))
              /\ UndoRestores(GestureFrom(c, q))

\* an undo has restored a raster or a transform that differs from the one
\* it replaced
C1_Witness ==
  /\ Loaded(St) /\ pending = <<>> /\ redoStack # <<>>
  /\ Last(redoStack).state # Null
  /\ \/ Last(redoStack).state[1] # overlayState
     \/ Last(redoStack).overlayData # overlayImg

\* k undos from s, and k redos, each decode completing before the next request
RECURSIVE UndoTimes(_, _)
UndoTimes(s, k) == IF k = 0 THEN s ELSE UndoTimes(Settle(undo(s)), k - 1)

RECURSIVE RedoTimes(_, _)
RedoTimes(s, k) == IF k = 0 THEN s ELSE RedoTimes(Settle(redo(s)), k - 1)

\* C2: with a non-empty undo stack and no decode pending, k undos followed
\* by k redos, each decode completing before the next request, restore the
\* live raster, the transform, the undo stack and the redo stack, for every
\* k from 1 to the depth of the undo stack.
C2_UndoRedoRoundTrip ==
  (undoStack # <<>> /\ pending = <<>>) =>
    \A k \in 1..Len(undoStack) :
      LET r == RedoTimes(UndoTimes(St, k), k)
      IN /\ r.overlayImg = overlayImg
         /\ r.overlayState = overlayState
         /\ r.undoStack = undoStack
         /\ r.redoStack = redoStack

\* two undos deep, with a state to redo already on the redo stack: the first
\* undo changes the transform
C2_Witness ==
  /\ pending = <<>> /\ Len(undoStack) >= 2 /\ redoStack # <<>>
  /\ UndoTimes(St, 1).overlayState # overlayState
  /\ Len(UndoTimes(St, 2).redoStack) = Len(redoStack) + 2

\* C3: saveState with an overlay loaded puts exactly one snapshot, holding
\* the live raster and the values of the live transform, on top of the undo
\* stack and empties the redo stack; the button flags follow the stacks and
\* nothing else changes.  With no overlay loaded it changes nothing.
C3_SaveStateEffect ==
  LET r == saveState(St)
  IN IF overlayImg # Null /\ overlayOriginalImg # Null
     THEN /\ Len(r.undoStack) = Len(undoStack) + 1
          /\ Front(r.undoStack) = undoStack
          /\ Last(r.undoStack).overlayData = overlayImg
          /\ Last(r.undoStack).state = Some(overlayState)
          /\ r.redoStack = <<>>
          /\ ~r.undoDisabled /\ r.redoDisabled
          /\ [r EXCEPT !.undoStack = undoStack, !.redoStack = redoStack,
                       !.undoDisabled = undoDisabled,
                       !.redoDisabled = redoDisabled] = St
     ELSE r = St

\* an overlay is loaded and there is something to redo, which saveState drops
C3_Witness ==
  /\ overlayImg # Null /\ undoStack # <<>> /\ redoStack # <<>>
  /\ saveState(St).redoStack = <<>>
  /\ Len(saveState(St).undoStack) = Len(undoStack) + 1

\* C4: undo with an empty undo stack and redo with an empty redo stack
\* change nothing: the raster, the transform, both stacks, the decodes in
\* flight and every other part of the state stay as they are.
C4_EmptyStackNoOp ==
  /\ undoStack = <<>> => undo(St) = St
  /\ redoStack = <<>> => redo(St) = St

\* an overlay is live and the undo stack has been emptied by undos
C4_Witness ==
  /\ overlayImg # Null /\ pending = <<>>
  /\ undoStack = <<>> /\ redoStack # <<>>
  /\ undo(St) = St

\* a decode started by a crop, an undo, a redo or an overlay load is in flight
DecodeOutstanding(s) ==
  \E i \in 1..Len(s.pending) : s.pending[i].kind \in {"restore", "crop", "raw", "rgba"}

\* C5: while a decode started by a crop, an undo, a redo or an overlay load
\* is outstanding, a pointer-down starts no gesture: it leaves dragging,
\* resizing and cropping as they are.
C5_NoGestureStartWhileDecoding ==
  DecodeOutstanding(St) =>
    \A pt \in Points :
      LET d == pointerdown(St, pt[1], pt[2])
      IN /\ d.dragging = dragging
         /\ d.resizing = resizing
         /\ d.cropping = cropping

\* the live raster and transform of s are those of t
SameLive(s, t) ==
  /\ s.overlayImg = t.overlayImg
  /\ s.overlayOriginalImg = t.overlayOriginalImg
  /\ s.overlayState = t.overlayState

\* C6: an undo or redo that restores a snapshot with a raster installs the
\* raster and the transform of the snapshot in one step: the request itself
\* leaves both as they are while the decode is pending, and the onload of
\* the decode sets both.
C6_RestoreInstallsBothAtOnce ==
  /\ (undoStack # <<>> /\ Last(undoStack).overlayData # Null) => SameLive(undo(St), St)
  /\ (redoStack # <<>> /\ Last(redoStack).overlayData # Null) => SameLive(redo(St), St)
  /\ \A i \in 1..Len(pending) :
       pending[i].kind = "restore" =>
         LET r == restoreOnload(Completed(i), pending[i])
         IN /\ r.overlayImg = Some(pending[i].img)
            /\ r.overlayState = pending[i].state[1]

\* a restore is pending whose snapshot differs from the live state in the
\* raster and in the transform
C6_Witness ==
  \E i \in 1..Len(pending) :
    /\ pending[i].kind = "restore"
    /\ overlayImg # Null
    /\ pending[i].img # overlayImg[1]
    /\ pending[i].state[1] # overlayState

\* C7: with an overlay and a background loaded, no gesture in progress and
\* no decode pending, the scaled unrotated box lies inside the background:
\* 0 <= x, 0 <= y, x + width * scale <= bgWidth, y + height * scale <= bgHeight.
C7_BoxInsideBackground ==
  (Loaded(St) /\ ~dragging /\ ~resizing /\ ~cropping /\ pending = <<>>) =>
    /\ RLe(R(0), overlayState.x)
    /\ RLe(R(0), overlayState.y)
    /\ RLe(RAdd(overlayState.x, RMul(R(overlayImg[1].w), overlayState.scale)),
           R(bgImg[1].w))
    /\ RLe(RAdd(overlayState.y, RMul(R(overlayImg[1].h), overlayState.scale)),
           R(bgImg[1].h))

\* the handler result r leaves the transform, the crop and gesture flags and
\* both stacks of the current state as they are
LeavesEditState(r) ==
  /\ r.overlayState = overlayState
  /\ r.cropMode = cropMode /\ r.cropping = cropping
  /\ r.dragging = dragging /\ r.resizing = resizing
  /\ r.undoStack = undoStack /\ r.redoStack = redoStack

\* C8: with no overlay loaded every mutating action (rotate -5, rotate +5,
\* rotate reset, angle input, flip horizontal, flip vertical, smaller,
\* bigger, crop toggle, pointer down, move and up) is a no-op on the
\* transform, the crop and gesture flags and both stacks.
C8_NoOverlayNoOp ==
  overlayImg = Null =>
    /\ LeavesEditState(rotM5BtnClick(St))
    /\ LeavesEditState(rotP5BtnClick(St))
    /\ LeavesEditState(rotResetBtnClick(St))
    /\ \A val \in AngleInputs : LeavesEditState(angleInputInput(St, val))
    /\ LeavesEditState(flipHBtnClick(St))
    /\ LeavesEditState(flipVBtnClick(St))
    /\ LeavesEditState(smallerBtnClick(St))
    /\ LeavesEditState(biggerBtnClick(St))
    /\ LeavesEditState(cropBtnClick(St))
    /\ \A pt \in Points :
         /\ LeavesEditState(pointerdown(St, pt[1], pt[2]))
         /\ LeavesEditState(pointermove(St, pt[1], pt[2]))
    /\ LeavesEditState(pointerup(St))

\* the canvas point pt lies outside the scaled, rotated box of the overlay
Outside(s, pt) ==
  LET local == ToLocal(s, pt[1], pt[2])
  IN ~(RLe(RAbs(local[1]), Half(ScaledW(s))) /\ RLe(RAbs(local[2]), Half(ScaledH(s))))

\* the crops among the decodes in flight
CropCount(s) == Len(SelectSeq(s.pending, LAMBDA p : p.kind = "crop"))

\* the handler result r has started no crop
NoCropStarted(r) == CropCount(r) <= CropCount(St)

\* C9: the crop button toggling crop mode off, a pointer-down outside the
\* overlay and a pointer-up with no drag, resize or crop gesture active each
\* leave the transform and the raster as they are; and a crop is started by
\* no handler but the pointer-up that ends an active crop selection.
C9_CancelLeavesTransform ==
  /\ cropMode => SameLive(cropBtnClick(St), St)
  /\ Loaded(St) =>
       \A pt \in Points :
         Outside(St, pt) => SameLive(pointerdown(St, pt[1], pt[2]), St)
  /\ (~dragging /\ ~resizing /\ ~cropping) =>
       SameLive(pointerup(St), St) /\ pointerup(St).pending = pending
  /\ ~cropping => NoCropStarted(pointerup(St))
  /\ NoCropStarted(cropBtnClick(St))
  /\ NoCropStarted(smallerBtnClick(St)) /\ NoCropStarted(biggerBtnClick(St))
  /\ NoCropStarted(rotM5BtnClick(St)) /\ NoCropStarted(rotP5BtnClick(St))
  /\ NoCropStarted(rotResetBtnClick(St))
  /\ NoCropStarted(flipHBtnClick(St)) /\ NoCropStarted(flipVBtnClick(St))
  /\ \A val \in AngleInputs : NoCropStarted(angleInputInput(St, val))
  /\ \A pt \in Points :
       /\ NoCropStarted(pointerdown(St, pt[1], pt[2]))
       /\ NoCropStarted(pointermove(St, pt[1], pt[2]))
  /\ NoCropStarted(undo(St)) /\ NoCropStarted(redo(St))
  /\ NoCropStarted(removeOverlayBtnClick(St)) /\ NoCropStarted(newBtnClick(St))
  /\ \A file \in BgFiles : NoCropStarted(bgInputChange(St, file))
  /\ \A file \in OverlayFiles : NoCropStarted(overlayInputChange(St, file))
  /\ \A i \in 1..Len(pending) : NoCropStarted(Onload(Completed(i), pending[i]))

\* crop mode is on with no gesture active: a point of the canvas lies
\* outside the overlay, the pointer-down there ends crop mode, and so does
\* the crop button
C9_Witness ==
  /\ Loaded(St) /\ cropMode /\ ~cropping /\ ~dragging /\ ~resizing
  /\ \E pt \in Points :
       Outside(St, pt) /\ ~pointerdown(St, pt[1], pt[2]).cropMode
  /\ ~cropBtnClick(St).cropMode

\* the live raster or transform of r differ from those of the current state
LiveChanged(r) == r.overlayImg # overlayImg \/ r.overlayState # overlayState

\* the snapshot of the current live raster and transform
LiveSnapshot ==
  [overlayData |-> overlayImg, originalData |-> overlayOriginalImg,
   state |-> Some(overlayState)]

\* r has the current live state pushed on the undo stack and no redo
PushedBefore(r) ==
  r.undoStack = Append(undoStack, LiveSnapshot) /\ r.redoStack = <<>>

\* a handler result r that changed the live state recorded it first
Recorded(r) == LiveChanged(r) => PushedBefore(r)

\* C10: with an overlay loaded, every change of the live transform or raster
\* by an edit (scale buttons, rotate, flip, angle input, a background
\* replacement that refits the overlay, the moves of a gesture, a crop) is
\* preceded by the push of the pre-change state and leaves the redo stack
\* empty: a one-step edit pushes the state it changes, a gesture pushes at
\* its pointer-down and changes with that snapshot on the stack; undo and
\* redo change the stacks by one pop and one push only.
C10_ChangesAreRecorded ==
  overlayImg # Null =>
    /\ Recorded(smallerBtnClick(St)) /\ Recorded(biggerBtnClick(St))
    /\ Recorded(rotM5BtnClick(St)) /\ Recorded(rotP5BtnClick(St))
    /\ Recorded(rotResetBtnClick(St))
    /\ Recorded(flipHBtnClick(St)) /\ Recorded(flipVBtnClick(St))
    /\ \A val \in AngleInputs : Recorded(angleInputInput(St, val))
    /\ \A i \in 1..Len(pending) :
         pending[i].kind = "bg" => Recorded(bgOnload(Completed(i), pending[i]))
    /\ \A pt \in Points :
         LET d == pointerdown(St, pt[1], pt[2])
             m == pointermove(St, pt[1], pt[2])
         IN /\ (d.dragging /\ ~dragging) \/ (d.resizing /\ ~resizing)
                 \/ (d.cropping /\ ~cropping) => PushedBefore(d)
            /\ LiveChanged(m) =>
                 m.undoStack = undoStack /\ undoStack # <<>> /\ m.redoStack = <<>>
    /\ \A i \in 1..Len(pending) :
         pending[i].kind = "crop" =>
           LET c == cropOnload(Completed(i), pending[i])
           IN c.undoStack = undoStack /\ undoStack # <<>> /\ c.redoStack = <<>>
    /\ undoStack # <<>> =>
         LET u == undo(St)
         IN /\ u.undoStack = Front(undoStack)
            /\ Len(u.redoStack) = Len(redoStack) + 1
            /\ Front(u.redoStack) = redoStack
    /\ redoStack # <<>> =>
         LET r == redo(St)
         IN /\ r.redoStack = Front(redoStack)
            /\ Len(r.undoStack) = Len(undoStack) + 1
            /\ Front(r.undoStack) = undoStack

\* the crop selection of s has no area: its corners agree in a coordinate
ZeroArea(s) ==
  /\ s.cropStart # Null /\ s.cropEnd # Null
  /\ s.cropStart[1] = s.cropEnd[1] \/ s.cropStart[2] = s.cropEnd[2]

\* C11: a crop gesture whose selection has zero area is aborted: the
\* pointer-up starts no decode and leaves the raster and the transform as
\* they were, for every start point inside the overlay.
C11_ZeroAreaCropAborted ==
  (Loaded(St) /\ pending = <<>>) =>
    \A p \in Points :
      LET d == pointerdown(InCropMode(St), p[1], p[2])
      IN d.cropping =>
           \A q \in Points :
             LET m == pointermove(d, q[1], q[2])
                 u == pointerup(m)
             IN ZeroArea(m) => u.pending = pending /\ SameLive(u, St)

\* the scale-up request on s would produce a box wider or taller than the
\* background
BiggerExceeds(s) ==
  /\ s.overlayImg # Null /\ s.bgImg # Null
  /\ LET nextScale == RMul(s.overlayState.scale, Norm(11, 10))
         w == RMul(R(s.overlayImg[1].w), RAbs(nextScale))
         h == RMul(R(s.overlayImg[1].h), RAbs(nextScale))
     IN RLt(R(s.bgImg[1].w), w) \/ RLt(R(s.bgImg[1].h), h)

\* C12: a scale-up request whose box would exceed the background is aborted
\* with no state mutation: the transform, the undo stack and the redo stack
\* are the same before and after the request.
C12_BiggerAbortLeavesState ==
  BiggerExceeds(St) =>
    LET r == biggerBtnClick(St)
    IN /\ r.overlayState = overlayState
       /\ r.undoStack = undoStack
       /\ r.redoStack = redoStack

\* C13: between events, once the stacks have been touched (one of them is
\* non-empty), the undo button is enabled exactly when the undo stack is
\* non-empty and the redo button exactly when the redo stack is non-empty,
\* also while the decode of an undo or redo is pending.
C13_ButtonsMatchStacks ==
  (undoStack # <<>> \/ redoStack # <<>>) =>
    /\ undoDisabled = (undoStack = <<>>)
    /\ redoDisabled = (redoStack = <<>>)

\* numeric values typed into the angle input, within and beyond one turn
AngleValues == {-541, -270, -181, -180, 0, 180, 181, 270, 541}

InRange(angle) == -180 <= angle /\ angle <= 180

\* C14: the angle of the transform lies in [-180, 180] in every reachable
\* state and after every numeric value entered through the angle input; an
\* input of 270 is stored as -90 and an input of -270 as 90.
C14_AngleInRange ==
  /\ InRange(overlayState.angle)
  /\ \A val \in AngleValues :
       InRange(angleInputInput(St, val).overlayState.angle)
  /\ angleInputInput(St, 270).overlayState.angle = -90
  /\ angleInputInput(St, -270).overlayState.angle = 90

\* the origin of the box of r lies strictly between the bounds of the clamp,
\* so that the clamp of the crop has returned the origin it was given
Unclamped(r) ==
  /\ RLt(R(0), r.overlayState.x)
  /\ RLt(r.overlayState.x, RSub(R(r.bgImg[1].w), ScaledW(r)))
  /\ RLt(R(0), r.overlayState.y)
  /\ RLt(r.overlayState.y, RSub(R(r.bgImg[1].h), ScaledH(r)))

\* the centre of the selection swept in m, as the user saw it: display-local
\* coordinates, scaled and rotated by the angle
SweptCentre(m) ==
  LET cx == Half(RAdd(m.cropStart[1], m.cropEnd[1]))
      cy == Half(RAdd(m.cropStart[2], m.cropEnd[2]))
  IN Rot(RMul(cx, m.overlayState.scale), RMul(cy, m.overlayState.scale),
         m.overlayState.angle)

\* C15: after a committed crop whose new origin the clamp has not changed,
\* the centre of the new box is the centre of the old box plus the centre of
\* the swept selection (display-local, scaled, rotated by the angle),
\* whatever the flips are.
C15_CropAnchoredToSelection ==
  (Loaded(St) /\ pending = <<>>) =>
    \A p \in Points :
      LET d == pointerdown(InCropMode(St), p[1], p[2])
      IN d.cropping =>
           \A q \in Points :
             LET m == pointermove(d, q[1], q[2])
                 u == pointerup(m)
                 r == Settle(u)
                 c == SweptCentre(m)
             IN (u.pending # <<>> /\ Unclamped(r)) =>
                  /\ CentreX(r) = RAdd(CentreX(St), c[1])
                  /\ CentreY(r) = RAdd(CentreY(St), c[2])

\* the corners of the unscaled box of s, in local coordinates
BoxCorners(s) ==
  LET hw == Half(R(s.overlayOriginalImg[1].w))
      hh == Half(R(s.overlayOriginalImg[1].h))
  IN {<<RNeg(hw), RNeg(hh)>>, <<hw, RNeg(hh)>>, <<hw, hh>>, <<RNeg(hw), hh>>}

\* s in crop mode after a pointer-down on the corner a of the box and a move
\* to the corner b
Selected(s, a, b) ==
  [saveState(InCropMode(s)) EXCEPT
     !.cropping = TRUE, !.cropStart = a, !.cropEnd = b]

\* the box of s lies within the background
WithinBackground(s) ==
  /\ RLe(R(0), s.overlayState.x)
  /\ RLe(RAdd(s.overlayState.x, ScaledW(s)), R(s.bgImg[1].w))
  /\ RLe(R(0), s.overlayState.y)
  /\ RLe(RAdd(s.overlayState.y, ScaledH(s)), R(s.bgImg[1].h))

\* C16: a crop whose selection spans the full unscaled box, swept along
\* either diagonal in either direction, starts a decode of the pixel
\* rectangle [0, width) x [0, height), so that the raster installed is the
\* one that was cropped; x and y are unchanged when the box was within the
\* background.  This holds whatever the flips are.
C16_FullBoxCropIsIdentity ==
  (Loaded(St) /\ pending = <<>>) =>
    \A a \in BoxCorners(St) :
      LET b == <<RNeg(a[1]), RNeg(a[2])>>
          u == pointerup(Selected(St, a, b))
          r == Settle(u)
      IN /\ Len(u.pending) = 1
         /\ u.pending[1].kind = "crop"
         /\ r.overlayImg = overlayOriginalImg
         /\ r.overlayOriginalImg = overlayOriginalImg
         /\ WithinBackground(St) =>
              r.overlayState.x = overlayState.x /\ r.overlayState.y = overlayState.y

\* a flipped overlay, scaled, strictly inside the bound of the clamp, is
\* cropped to its full box
C16_Witness ==
  /\ Loaded(St) /\ pending = <<>> /\ WithinBackground(St)
  /\ overlayState.flipH
  /\ overlayState.scale # R(1)
  /\ RLt(RAdd(overlayState.x, ScaledW(St)), R(bgImg[1].w))
  /\ \E a \in BoxCorners(St) :
       pointerup(Selected(St, a, <<RNeg(a[1]), RNeg(a[2])>>)).pending # <<>>

\* the largest scale at which the overlay of s fits the background
MaxScale(s) ==
  RMin(Norm(s.bgImg[1].w, s.overlayImg[1].w), Norm(s.bgImg[1].h, s.overlayImg[1].h))

\* C17: after a pointer-move processed during a resize gesture, whatever the
\* pointer position and the sizes of the overlay and the background, the
\* scale satisfies 0.05 <= scale <= min(bgWidth/width, bgHeight/height), and
\* it equals min(2*|localX|/width, 2*|localY|/height) when that value lies
\* in the interval.
C17_ResizeScaleInInterval ==
  (Loaded(St) /\ resizing /\ ~cropping) =>
    \A q \in SizePoints :
      LET m == pointermove(St, q[1], q[2])
          local == ToLocal(St, q[1], q[2])
          want == RMin(RDiv(RMul(R(2), RAbs(local[1])), R(overlayImg[1].w)),
                       RDiv(RMul(R(2), RAbs(local[2])), R(overlayImg[1].h)))
      IN /\ RLe(minScale, m.overlayState.scale)
         /\ RLe(m.overlayState.scale, MaxScale(St))
         /\ (RLe(minScale, want) /\ RLe(want, MaxScale(St))) =>
              m.overlayState.scale = want

\* v clamped into [0, hi], collapsing to 0 when the interval is empty
ClampInto(v, hi) ==
  IF RLt(hi, R(0)) \/ RLt(v, R(0)) THEN R(0)
  ELSE IF RLt(hi, v) THEN hi ELSE v

\* C18: during a drag at angle 0 a pointer-move leaves the anchor recorded at
\* pointer-down as it is and sets the origin to pointer - anchor - half
\* extents, clamped per axis into [0, bgWidth - w] x [0, bgHeight - h] (0 on
\* an axis where the box is larger than the background); a 100x50 overlay at
\* scale 1 with anchor (10, 5) and the pointer at (80, 70) gets the clamp of
\* (20, 40).  Scale, angle, flips and the raster are unchanged.
C18_DragAtAngleZero ==
  (Loaded(St) /\ dragging /\ ~resizing /\ ~cropping /\ overlayState.angle = 0) =>
    /\ \A q \in SizePoints \cup {<<80, 70>>} :
         LET m == pointermove(St, q[1], q[2])
             w == ScaledW(St)
             h == ScaledH(St)
             wantX == RSub(RSub(R(q[1]), dragData.localX), Half(w))
             wantY == RSub(RSub(R(q[2]), dragData.localY), Half(h))
         IN /\ m.dragData = dragData
            /\ m.overlayState.x = ClampInto(wantX, RSub(R(bgImg[1].w), w))
            /\ m.overlayState.y = ClampInto(wantY, RSub(R(bgImg[1].h), h))
            /\ m.overlayState.scale = overlayState.scale
            /\ m.overlayState.angle = overlayState.angle
            /\ m.overlayState.flipH = overlayState.flipH
            /\ m.overlayState.flipV = overlayState.flipV
            /\ m.overlayImg = overlayImg
            /\ m.overlayOriginalImg = overlayOriginalImg
    /\ ( /\ overlayImg[1].w = 100 /\ overlayImg[1].h = 50
         /\ overlayState.scale = R(1)
         /\ dragData = [localX |-> R(10), localY |-> R(5)] ) =>
         LET e == pointermove(St, 80, 70)
         IN /\ e.overlayState.x = ClampInto(R(20), R(bgImg[1].w - 100))
            /\ e.overlayState.y = ClampInto(R(40), R(bgImg[1].h - 50))

\* the drag of the example on a background large enough for the origin
\* (20, 40)
C18_Witness ==
  /\ Loaded(St) /\ dragging /\ ~resizing /\ ~cropping /\ overlayState.angle = 0
  /\ dragData = [localX |-> R(10), localY |-> R(5)]
  /\ pointermove(St, 80, 70).overlayState.x = R(20)
  /\ pointermove(St, 80, 70).overlayState.y = R(40)

\* the handle squares of drawScene: side drawnHandleSize, centred on the
\* corners of the box
drawnHandleSize == 8

halfHandle == Norm(drawnHandleSize, 2)

\* corner i of a box of extents w x h: 0 top-left, 1 top-right, 2
\* bottom-right, 3 bottom-left
CornerOf(i, w, h) ==
  CASE i = 0 -> <<RNeg(Half(w)), RNeg(Half(h))>>
    [] i = 1 -> <<Half(w), RNeg(Half(h))>>
    [] i = 2 -> <<Half(w), Half(h)>>
    [] i = 3 -> <<RNeg(Half(w)), Half(h)>>

\* the corners whose square of half-size r holds the local point
Within(local, w, h, r) ==
  {i \in 0..3 :
     /\ RLe(RAbs(RSub(local[1], CornerOf(i, w, h)[1])), r)
     /\ RLe(RAbs(RSub(local[2], CornerOf(i, w, h)[2])), r)}

\* the handles drawScene has drawn under the local point
DrawnHandles(s, local) ==
  Within(local, RMul(R(s.overlayImg[1].w), s.overlayState.scale),
         RMul(R(s.overlayImg[1].h), s.overlayState.scale), halfHandle)

\* the rule of the classification: resize from the lowest corner within the
\* handle half-size, else drag inside the box, else nothing
Classified(s, d, local, w, h) ==
  LET hits == Within(local, w, h, R(handleSize))
  IN IF hits # {}
     THEN d.resizing /\ ~d.dragging /\ d.resizeHandle = MinOf(hits)
     ELSE IF RLe(RAbs(local[1]), Half(w)) /\ RLe(RAbs(local[2]), Half(h))
     THEN d.dragging /\ ~d.resizing
          /\ d.dragData = [localX |-> local[1], localY |-> local[2]]
     ELSE ~d.dragging /\ ~d.resizing

\* C19: a pointer-down outside crop mode with no gesture in progress is
\* classified by one rule in priority order: within the handle half-size of
\* corner i it starts a resize with resizeHandle = i, the lowest index
\* winning, even inside the box; otherwise inside the box it starts a drag;
\* otherwise nothing starts.  The corners and the handle extent of the hit
\* test are those of the handles drawn: the point starts a resize exactly
\* when it lies on a drawn handle.
C19_PointerDownClassification ==
  (Loaded(St) /\ ~cropMode /\ ~dragging /\ ~resizing /\ ~cropping) =>
    \A p \in SizePoints :
      LET d == pointerdown(St, p[1], p[2])
          local == ToLocal(St, p[1], p[2])
      IN /\ Classified(St, d, local, ScaledW(St), ScaledH(St))
         /\ d.resizing <=> (DrawnHandles(St, local) # {})

\* normalizeAngle at a: in range, a whole number of turns from a, and a
\* fixed point of normalizeAngle
Normalizes(a) ==
  LET n == normalizeAngle(a)
  IN /\ InRange(n)
     /\ (n - a) % 360 = 0
     /\ normalizeAngle(n) = n

\* C20: normalizeAngle is idempotent and range-correct on the angles the
\* rotate buttons pass to it and on the stored angle itself, for every
\* integer typed into the angle input: the result lies in [-180, 180],
\* differs from the argument by a multiple of 360 and is unchanged by a
\* second application; the evaluation terminates.
C20_NormalizeAngleIdempotent ==
  /\ Normalizes(overlayState.angle - 5)
  /\ Normalizes(overlayState.angle + 5)
  /\ Normalizes(overlayState.angle)

\* normalizeAngle is applied to an angle more than a turn below the range
C20_Witness ==
  /\ overlayState.angle - 5 < -360
  /\ normalizeAngle(overlayState.angle - 5) # overlayState.angle - 5
  /\ rotM5BtnClick(St).overlayState.angle = overlayState.angle - 5 + 360

\* the alpha the ramp gives the distance d: 0 up to the tolerance 22, 255
\* from 24 on, round(255 * (d - 22) / 2) between
RampAlpha(d) ==
  IF d <= 22 THEN 0
  ELSE IF d >= 24 THEN 255
  ELSE (255 * (d - 22) + 1) \div 2

\* the largest of three numbers
Max3(a, b, c) == CHOOSE m \in {a, b, c} : \A n \in {a, b, c} : n <= m

\* C21: for every distance d in 0..255 the alpha table is 0 when d <= 22,
\* 255 when d >= 24 and round(255 * (d - 22) / 2) in between, and it is
\* non-decreasing in d; a pixel keyed by an overlay load gets the table
\* entry of d = max(|R - 128|, |G - 128|, |B - 128|) as its alpha and keeps
\* its R, G and B.
C21_AlphaRamp ==
  /\ \A d \in 0..255 : lut(d) = RampAlpha(d)
  /\ \A d \in 0..254 : lut(d) <= lut(d + 1)
  /\ \A i \in 1..Len(pending) :
       pending[i].kind = "raw" =>
         LET px == pending[i].img.px
             out == rawOnload(Completed(i), pending[i])
             keyed == Last(out.pending).img.px
         IN /\ keyed[1] = px[1] /\ keyed[2] = px[2] /\ keyed[3] = px[3]
            /\ keyed[4] = lut(Max3(IAbs(px[1] - 128), IAbs(px[2] - 128),
                                   IAbs(px[3] - 128)))
  /\ overlayImg # Null =>
       overlayImg[1].px[4] =
         RampAlpha(Max3(IAbs(overlayImg[1].px[1] - 128),
                        IAbs(overlayImg[1].px[2] - 128),
                        IAbs(overlayImg[1].px[3] - 128)))

\* an overlay whose pixels lie on the ramp, at distance 23 of the key colour,
\* has been keyed to alpha 128
C21_Witness ==
  /\ overlayImg # Null
  /\ maxDiff(overlayImg[1].px) = 23
  /\ overlayImg[1].px[4] = 128

\* C22: in every reachable state the current overlay and the original
\* overlay are the same raster or both absent: load, crop completion,
\* restore, removal and new session assign the two together.
C22_SingleRasterLineage == overlayImg = overlayOriginalImg

\* an undo has restored the raster a crop had replaced
C22_Witness ==
  /\ overlayImg # Null /\ pending = <<>>
  /\ redoStack # <<>>
  /\ Last(redoStack).overlayData # Null
  /\ Last(redoStack).overlayData # overlayImg
  /\ Last(redoStack).overlayData[1].id = overlayImg[1].id

\* the decode of a restore is in flight
RestorePending == \E i \in 1..Len(pending) : pending[i].kind = "restore"

\* the step that completes the i-th decode, a restore, installs its snapshot
\* and sets the buttons by the stacks
RestoreInstalls(i) ==
  (pending[i].kind = "restore" /\ pending' = RemoveAt(pending, i)) =>
    /\ overlayImg' = Some(pending[i].img)
    /\ overlayState' = pending[i].state[1]
    /\ undoDisabled' = (undoStack' = <<>>)
    /\ redoDisabled' = (redoStack' = <<>>)
    /\ undoStack' = undoStack /\ redoStack' = redoStack

\* C23: when undo or redo has popped a snapshot and decodes are fair, the
\* decode eventually completes, and the step that completes it makes the
\* live raster and the transform those of the popped snapshot and the
\* button flags those of the stack sizes.
C23_RestoreEventuallyInstalled ==
  /\ [][\A i \in 1..Len(pending) : RestoreInstalls(i)]_vars
  /\ RestorePending ~> ~RestorePending

\* an undo has popped a snapshot that differs from the live transform and
\* its decode is in flight, the buttons not yet refreshed
C23_Witness ==
  /\ RestorePending
  /\ Last(pending).kind = "restore"
  /\ Last(pending).state[1] # overlayState
  /\ undoDisabled # (undoStack = <<>>)

\* the smaller of two numbers
Min2(a, b) == IF RLe(a, b) THEN a ELSE b

\* the transform a freshly loaded overlay img gets on the background bg
DefaultTransform(bg, img) ==
  LET scale == Min2(Min2(RDiv(R(bg.w), R(img.w)), RDiv(R(bg.h), R(img.h))), R(1))
  IN [x |-> Min2(R(20), RSub(R(bg.w), RMul(R(img.w), scale))),
      y |-> Min2(R(20), RSub(R(bg.h), RMul(R(img.h), scale))),
      scale |-> scale, angle |-> 0, flipH |-> FALSE, flipV |-> FALSE]

\* C24: when an overlay load completes on a loaded background the redo stack
\* is empty, the undo stack holds exactly one snapshot, of the loaded overlay
\* with its default transform (angle 0, no flips, scale min(bgWidth/width,
\* bgHeight/height, 1), origin (min(20, bgWidth - w), min(20, bgHeight -
\* h))), and crop mode is off: no snapshot of an earlier overlay is left on
\* either stack.
C24_LoadResetsHistory ==
  bgImg # Null =>
    \A i \in 1..Len(pending) :
      pending[i].kind = "rgba" =>
        LET img == pending[i].img
            r == rgbaOnload(Completed(i), pending[i])
            t == DefaultTransform(bgImg[1], img)
        IN /\ r.overlayImg = Some(img)
           /\ r.overlayState = t
           /\ r.redoStack = <<>>
           /\ r.undoStack = <<[overlayData |-> Some(img),
                               originalData |-> Some(img),
                               state |-> Some(t)]>>
           /\ ~r.cropMode /\ ~r.cropping

\* a second overlay is about to complete its load over an overlay with a
\* history of its own
C24_Witness ==
  /\ bgImg # Null /\ overlayImg # Null
  /\ Len(undoStack) >= 2
  /\ pending # <<>>
  /\ Last(pending).kind = "rgba"
  /\ Last(pending).img.id # overlayImg[1].id
  /\ FitScale(bgImg[1], Last(pending).img) # R(1)

\* 1 for a flag that is set, 0 otherwise
Flag(b) == IF b THEN 1 ELSE 0

\* C25: in every reachable state at most one of dragging, resizing and
\* cropping is true, resizing is true exactly when resizeHandle is in 0..3,
\* and cropping implies that cropStart and cropEnd are both set, also when a
\* second pointer-down arrives before the pointer-up of the first.
C25_OneGestureAtATime ==
  /\ Flag(dragging) + Flag(resizing) + Flag(cropping) <= 1
  /\ resizing <=> (resizeHandle \in 0..3)
  /\ cropping => (cropStart # Null /\ cropEnd # Null)

\* every snapshot of the stack has a raster and a transform
AllLoaded(stack) ==
  \A i \in 1..Len(stack) :
    stack[i].overlayData # Null /\ stack[i].state # Null

\* C26: whenever no overlay is loaded the undo stack and the redo stack are
\* empty, and every snapshot on either stack has a raster and a transform:
\* undo and redo never pop a null snapshot.
C26_NoNullSnapshots ==
  /\ overlayImg = Null => (undoStack = <<>> /\ redoStack = <<>>)
  /\ AllLoaded(undoStack)
  /\ AllLoaded(redoStack)

\* the overlay has been removed after edits and an undo or redo
C26_Witness ==
  /\ bgImg # Null /\ overlayImg = Null
  /\ nEdits > 0 /\ nUndos > 0
  /\ undoStack = <<>> /\ redoStack = <<>>

\* C27: once the overlay has been removed or a new session started, no
\* overlay is loaded until an overlay load completes: with no overlay
\* loaded, the completion of a pending decode of an undo, a redo or a crop
\* installs none, and an overlay is never live while no background is
\* loaded.
C27_NoOverlayRevival ==
  /\ bgImg = Null => overlayImg = Null
  /\ overlayImg = Null =>
       \A i \in 1..Len(pending) :
         pending[i].kind \in {"restore", "crop"} =>
           Onload(Completed(i), pending[i]).overlayImg = Null

\* s once its last two decodes have completed, the earlier one first or the
\* later one first
ResolveBoth(s, earlierFirst) ==
  LET n == Len(s.pending)
      a == s.pending[n - 1]
      b == s.pending[n]
      rest == [s EXCEPT !.pending = SubSeq(@, 1, n - 2)]
  IN IF earlierFirst THEN Onload(Onload(rest, a), b)
     ELSE Onload(Onload(rest, b), a)

\* C28: with an undo stack of depth at least 2 and no decode pending, two
\* undo requests, the second before the decode of the first has completed,
\* end, once both decodes have completed in either order, with the second
\* snapshot popped live and with the first snapshot popped on top of the
\* redo stack, above the live state of before the undos, so that two redos
\* return to that state.
C28_BackToBackUndo ==
  (Len(undoStack) >= 2 /\ pending = <<>> /\ overlayImg # Null) =>
    LET first == undoStack[Len(undoStack)]
        second == undoStack[Len(undoStack) - 1]
        requested == undo(undo(St))
    IN \A earlierFirst \in BOOLEAN :
         LET r == ResolveBoth(requested, earlierFirst)
             back == RedoTimes(r, 2)
         IN /\ r.overlayImg = second.overlayData
            /\ r.overlayState = second.state[1]
            /\ r.redoStack = Append(Append(redoStack, Snapshot(St)), first)
            /\ back.overlayImg = overlayImg
            /\ back.overlayState = overlayState

====
